---- MODULE Spec2Model ----
(***************************************************************************)
(* A model of hypercorn/asyncio/run.py:                                    *)
(*   - Server, the per-connection protocol multiplexer (SpecConn);         *)
(*   - run_single, the single-process runtime and its teardown             *)
(*     (SpecSingle);                                                       *)
(*   - run_multiple, the worker-pool supervisor, with workers that run     *)
(*     run_single against the shared socket and shutdown flag (SpecMulti;  *)
(*     SpecMultiLive and SpecMultiSupervised add scheduling assumptions).  *)
(***************************************************************************)
EXTENDS Integers, Sequences, FiniteSets, TLC

(***************************************************************************)
(* Bounds of the model.                                                    *)
(***************************************************************************)
\* chunks handed to Server.data_received on the connection
MaxChunks == 3
\* bytes in one chunk
MaxChunkLen == 2
\* callbacks the transport makes on the Server after connection_made
\* (data_received, pause_writing, resume_writing, connection_lost)
MaxCallbacks == 4

\* request tasks process 0 has in flight over the life of run_single
MaxTasks == 2
\* worker processes run_multiple starts (config.workers)
NumWorkers == 2
\* interrupt/terminate signals delivered to the supervisor
MaxSignals == 2

Requests == {"req1", "req2"}
TransportIds == {"t1", "t2"}
AlpnNames == {"h2", "http/1.1", "spdy"}

VARIABLES
    \* ---- Server (one connection) ----
    conn_state,     \* "new" | "open" | "failed" | "lost": position of the transport's callbacks
    transport,      \* the transport connection_made was given, or NoTransport
    handlers,       \* every protocol handler constructed on the connection, in order
    _server,        \* Server._server: index into handlers, 0 for None
    _ssl_enabled,   \* Server._ssl_enabled
    chunks,         \* the chunks passed to Server.data_received, in receipt order
    raised,         \* per chunk, what the handler's data_received raised
    notifications,  \* the pause/resume/loss callbacks the transport made, in order
    \* ---- run_single, one per process that runs it ----
    use_reloader,   \* config.use_reloader
    rs_pc,          \* where run_single is: the call it is blocked in, or "exited"
    startup,        \* how lifespan.wait_for_startup() ended
    server,         \* the acceptor: "none" | "listening" | "closing" | "closed"
    accepted,       \* whether the acceptor has accepted a connection
    tasks,          \* the loop's tasks: task id -> state
    swept,          \* `tasks` of _cancel_all_other_tasks: the tasks it cancelled
    reported,       \* the tasks handed to loop.call_exception_handler, in call order
    reload_,        \* the local reload_
    steps,          \* the teardown statements executed so far, in order
    loop_closed,    \* loop.close() was called
    exit,           \* how run_single ended
    sig_handler,    \* the process's disposition of SIGINT/SIGTERM
    signals,        \* interrupt/terminate signals delivered to process 0
    \* ---- run_multiple (process 0 as the supervisor) ----
    sup_pc,         \* where run_multiple is
    sock,           \* the listening socket of run_multiple
    shutdown_event, \* the multiprocessing Event: "none" | "clear" | "set"
    processes,      \* the list `processes`: the workers started, in order
    joined,         \* how many process.join() calls have returned
    terminated      \* the workers process.terminate() was called on

conn_vars == <<conn_state, transport, handlers, _server, _ssl_enabled, chunks, raised,
               notifications>>

rs_vars == <<use_reloader, rs_pc, startup, server, accepted, tasks, swept, reported,
             reload_, steps, loop_closed, exit, sig_handler, signals>>

sup_vars == <<sup_pc, sock, shutdown_event, processes, joined, terminated>>

vars == <<conn_state, transport, handlers, _server, _ssl_enabled, chunks, raised,
          notifications,
          use_reloader, rs_pc, startup, server, accepted, tasks, swept, reported,
          reload_, steps, loop_closed, exit, sig_handler, signals,
          sup_pc, sock, shutdown_event, processes, joined, terminated>>

NoTransport == [id |-> "none", ssl |-> FALSE, alpn |-> "none"]

\* What transport.get_extra_info("ssl_object") can answer: no TLS object, or a
\* TLS object whose selected_alpn_protocol() is None or a negotiated name.
Transports ==
    [id : TransportIds, ssl : {FALSE}, alpn : {"none"}]
        \cup [id : TransportIds, ssl : {TRUE}, alpn : AlpnNames \cup {"none"}]

\* The transport's byte stream is numbered in receipt order; a chunk is the next
\* n bytes of it, so its content is fixed by the lengths of the chunks before it.
RECURSIVE Flatten(_)
Flatten(ss) == IF ss = <<>> THEN <<>> ELSE Head(ss) \o Flatten(Tail(ss))

NextChunk(before, n) == [i \in 1..n |-> Len(Flatten(before)) + i]

\* What a handler's data_received does with a chunk, as far as Server can see:
\* it returns, raises one of the two upgrade signals, or raises anything else.
UpgradeSignals == {"WebsocketProtocolRequired", "H2CProtocolRequired"}
Outcomes == {"return", "error"} \cup UpgradeSignals

Range(f) == {f[i] : i \in DOMAIN f}

NoSocket == [created |-> 0, inheritable |-> FALSE, open |-> FALSE, closed |-> 0]

\* run_multiple is not running
SupIdle ==
    /\ sup_pc = "idle"
    /\ sock = NoSocket
    /\ shutdown_event = "none"
    /\ processes = <<>>
    /\ joined = 0
    /\ terminated = {}

\* no connection
InitConnIdle ==
    /\ conn_state = "new"
    /\ transport = NoTransport
    /\ handlers = <<>>
    /\ _server = 0
    /\ _ssl_enabled = FALSE
    /\ chunks = <<>>
    /\ raised = <<>>
    /\ notifications = <<>>

----------------------------------------------------------------------------
(***************************************************************************)
(* run_single                                                              *)
(*                                                                         *)
(* Process 0 is the process that called run(); processes 1..NumWorkers are *)
(* the workers of run_multiple. run_single is modelled from one blocking   *)
(* call (loop.run_until_complete, loop.run_forever) to the next: an action *)
(* is the return of the call run_single is blocked in, together with the   *)
(* statements up to the next blocking call. While run_single is blocked in *)
(* such a call the loop runs, and the loop's tasks and callbacks take      *)
(* steps.                                                                  *)
(***************************************************************************)
Procs == 0..NumWorkers
Workers == 1..NumWorkers

\* the task of lifespan.handle_lifespan(), the protected task of the teardown
LifespanTask == 0
\* the task run_single itself puts on the loop before serving:
\* _check_shutdown(shutdown_event) in a worker, observe_changes under the reloader
HelperTask == 1
MaxTaskId == MaxTasks + 1
TaskIds == 0..MaxTaskId
\* the request tasks the connections' handlers create. They are followed in
\* process 0; a worker is followed with no request in flight.
RequestTasks(p) == IF p = 0 THEN 2..MaxTaskId ELSE {}

TaskTerminal == {"cancelled", "done", "failed"}
NoTasks == [t \in TaskIds |-> "none"]

\* the calls that run the loop
LoopRuns == {"wait_for_startup", "create_server", "serving", "wait_closed", "gather",
             "shutdown_asyncgens", "wait_for_shutdown", "await_lifespan"}

\* the statements of the finally block, lines 191-205
TeardownSteps == <<"server.close", "server.wait_closed", "cancel", "gather", "report",
                   "shutdown_asyncgens", "remove_signal_handler", "wait_for_shutdown",
                   "lifespan_task.cancel", "await lifespan_task", "loop.close">>

\* run_single is given a shutdown_event by _run_worker only
\* a worker that is not handed the supervisor's Event
NoShutdownEvent(p) == FALSE

HasShutdownEvent(p) == p # 0

RsIdle ==
    /\ rs_pc = [p \in Procs |-> "idle"]
    /\ startup = [p \in Procs |-> "waiting"]
    /\ server = [p \in Procs |-> "none"]
    /\ accepted = [p \in Procs |-> FALSE]
    /\ tasks = [p \in Procs |-> NoTasks]
    /\ swept = [p \in Procs |-> {}]
    /\ reported = [p \in Procs |-> <<>>]
    /\ reload_ = [p \in Procs |-> FALSE]
    /\ steps = [p \in Procs |-> <<>>]
    /\ loop_closed = [p \in Procs |-> FALSE]
    /\ exit = [p \in Procs |-> "no"]
    /\ sig_handler = [p \in Procs |-> "default"]
    /\ signals = 0

\* lines 134-143: the lifespan task is created and run_single blocks in
\* loop.run_until_complete(lifespan.wait_for_startup())
EnterRunSingle(p) ==
    /\ rs_pc' = [rs_pc EXCEPT ![p] = "wait_for_startup"]
    /\ tasks' = [tasks EXCEPT ![p][LifespanTask] = "pending"]

\* line 143: what the return of wait_for_startup leads to. A failed startup is
\* raised to the caller of run_single; otherwise lines 145-168 create the acceptor.
\* (variant: a failed startup is not raised)
AfterStartupIgnoringFailure(outcome) == "create_server"
AfterStartup(outcome) == IF outcome = "failed" THEN "exited" ELSE "create_server"

\* line 143 returns or raises. An application without lifespan support ends the
\* lifespan task at once.
wait_for_startup(p, outcome) ==
    /\ rs_pc[p] = "wait_for_startup"
    /\ startup' = [startup EXCEPT ![p] = outcome]
    /\ rs_pc' = [rs_pc EXCEPT ![p] = AfterStartup(outcome)]
    /\ exit' = [exit EXCEPT ![p] = IF AfterStartup(outcome) = "exited"
                                  THEN "LifespanFailure" ELSE @]
    /\ tasks' = [tasks EXCEPT ![p][LifespanTask] =
                    IF outcome = "unsupported" THEN "done" ELSE @]
    /\ UNCHANGED <<conn_vars, sup_vars, use_reloader, server, accepted, swept, reported, reload_, steps,
                   loop_closed, sig_handler, signals>>

\* line 168 returns the listening acceptor; lines 170-178 put the shutdown poll
\* on the loop (worker) or install _raise_shutdown for the signals (process 0).
create_server(p) ==
    /\ rs_pc[p] = "create_server"
    /\ server' = [server EXCEPT ![p] = "listening"]
    /\ IF HasShutdownEvent(p)
       THEN /\ tasks' = [tasks EXCEPT ![p][HelperTask] = "pending"]
            /\ rs_pc' = [rs_pc EXCEPT ![p] = "serving"]
            /\ UNCHANGED sig_handler
       ELSE /\ sig_handler' = [sig_handler EXCEPT ![p] = "_raise_shutdown"]
            /\ rs_pc' = [rs_pc EXCEPT ![p] = "handlers_installed"]
            /\ UNCHANGED tasks
    /\ UNCHANGED <<conn_vars, sup_vars, use_reloader, startup, accepted, swept, reported, reload_, steps,
                   loop_closed, exit, signals>>

\* lines 180-185 of process 0: reload_ = False and the try block is entered;
\* under the reloader the loop runs observe_changes, else it runs forever.
enter_serving(p) ==
    /\ rs_pc[p] = "handlers_installed"
    /\ rs_pc' = [rs_pc EXCEPT ![p] = "serving"]
    /\ tasks' = [tasks EXCEPT ![p][HelperTask] = IF use_reloader THEN "pending" ELSE @]
    /\ UNCHANGED <<conn_vars, sup_vars, use_reloader, startup, server, accepted, swept, reported, reload_,
                   steps, loop_closed, exit, sig_handler, signals>>

\* ---- what the loop does while run_single is blocked in it ----

\* the acceptor accepts a connection
accept(p) ==
    /\ rs_pc[p] \in LoopRuns
    /\ server[p] = "listening"
    /\ ~accepted[p]
    /\ accepted' = [accepted EXCEPT ![p] = TRUE]
    /\ UNCHANGED <<conn_vars, sup_vars, use_reloader, rs_pc, startup, server, tasks, swept, reported,
                   reload_, steps, loop_closed, exit, sig_handler, signals>>

\* a connection's handler (or a task) creates a task; connections outlive the
\* acceptor, so this goes on during the teardown
create_task(p, t) ==
    /\ rs_pc[p] \in LoopRuns
    /\ accepted[p]
    /\ t \in RequestTasks(p)
    /\ tasks[p][t] = "none"
    /\ \A u \in RequestTasks(p) : u < t => tasks[p][u] # "none"
    /\ tasks' = [tasks EXCEPT ![p][t] = "pending"]
    /\ UNCHANGED <<conn_vars, sup_vars, use_reloader, rs_pc, startup, server, accepted, swept, reported,
                   reload_, steps, loop_closed, exit, sig_handler, signals>>

\* a request task ends: it returns or raises; one whose cancellation was
\* requested normally ends cancelled, but may also return or raise instead
task_ends(p, t, how) ==
    /\ rs_pc[p] \in LoopRuns
    /\ t \in RequestTasks(p) \cup {HelperTask}
    /\ tasks[p][t] \in {"pending", "cancelling"}
    /\ how \in TaskTerminal
    /\ how = "cancelled" => tasks[p][t] = "cancelling"
    \* the helper task ends by itself only by raising (see check_shutdown, reload)
    /\ t = HelperTask => tasks[p][t] = "cancelling"
    /\ tasks' = [tasks EXCEPT ![p][t] = how]
    /\ UNCHANGED <<conn_vars, sup_vars, use_reloader, rs_pc, startup, server, accepted, swept, reported,
                   reload_, steps, loop_closed, exit, sig_handler, signals>>

\* ---- the ways out of the serving loop, lines 181-189, and line 191 ----

\* line 191: server.close(), the first statement of the finally block
BeginTeardown(p) ==
    /\ rs_pc' = [rs_pc EXCEPT ![p] = "wait_closed"]
    /\ server' = [server EXCEPT ![p] = "closing"]
    /\ steps' = [steps EXCEPT ![p] = Append(@, "server.close")]

\* What _raise_shutdown does to run_single where it is: Shutdown is raised at the
\* statement being executed. In the try block it is caught (line 188) and the
\* finally block starts; anywhere else, the finally block included, it leaves
\* run_single.
SignalEffect(pc) == IF pc = "serving" THEN "teardown" ELSE "raise"

\* SIGINT/SIGTERM is delivered to process 0 while _raise_shutdown is installed
signal_raise_shutdown(p) ==
    /\ sig_handler[p] = "_raise_shutdown"
    /\ rs_pc[p] # "exited"
    /\ signals' = signals + 1
    /\ IF SignalEffect(rs_pc[p]) = "teardown"
       THEN /\ BeginTeardown(p)
            /\ UNCHANGED exit
       ELSE /\ rs_pc' = [rs_pc EXCEPT ![p] = "exited"]
            /\ exit' = [exit EXCEPT ![p] = "Shutdown"]
            /\ UNCHANGED <<server, steps>>
    /\ UNCHANGED <<conn_vars, sup_vars, use_reloader, startup, accepted, tasks, swept, reported, reload_,
                   loop_closed, sig_handler>>

\* lines 183, 186-187: observe_changes raises MustReloadException
reload(p) ==
    /\ rs_pc[p] = "serving"
    /\ tasks[p][HelperTask] = "pending"
    /\ ~HasShutdownEvent(p)
    /\ tasks' = [tasks EXCEPT ![p][HelperTask] = "failed"]
    /\ reload_' = [reload_ EXCEPT ![p] = TRUE]
    /\ BeginTeardown(p)
    /\ UNCHANGED <<conn_vars, sup_vars, use_reloader, startup, accepted, swept, reported, loop_closed,
                   exit, sig_handler, signals>>

\* ---- the finally block, lines 191-205, and lines 207-209 ----

\* line 297: the tasks of the loop that are not done, except the protected one
all_tasks(ts) == {t \in TaskIds : ts[t] \in {"pending", "cancelling"}}

SweepTargets(ts) == all_tasks(ts) \ {LifespanTask}

\* lines 298-299: task.cancel() for each
Cancelled(ts, sw) == [t \in TaskIds |-> IF t \in sw THEN "cancelling" ELSE ts[t]]

\* line 192 returns; then lines 297-299 of _cancel_all_other_tasks, which blocks
\* in the gather of line 300
wait_closed(p) ==
    /\ rs_pc[p] = "wait_closed"
    /\ server' = [server EXCEPT ![p] = "closed"]
    /\ swept' = [swept EXCEPT ![p] = SweepTargets(tasks[p])]
    /\ tasks' = [tasks EXCEPT ![p] = Cancelled(@, SweepTargets(tasks[p]))]
    /\ steps' = [steps EXCEPT ![p] = @ \o <<"server.wait_closed", "cancel">>]
    /\ rs_pc' = [rs_pc EXCEPT ![p] = "gather"]
    /\ UNCHANGED <<conn_vars, sup_vars, use_reloader, startup, accepted, reported, reload_, loop_closed,
                   exit, sig_handler, signals>>

\* line 300: gather(*tasks, return_exceptions=True) is done when every task of
\* `tasks` is
\* (variant: the gather is not awaited)
GatherWithoutWaiting(ts, sw) == TRUE
GatherDone(ts, sw) == \A t \in sw : ts[t] \in TaskTerminal

\* lines 302-312: the tasks of `tasks` that did not end cancelled and hold an
\* exception, in the order of the list
\* a report loop without the `continue` of line 304
HoldsExceptionOrCancelled(state) == state \in {"failed", "cancelled"}

\* lines 303-305: not task.cancelled() and task.exception() is not None
HoldsException(state) == state = "failed"

RECURSIVE ToReport(_, _, _)
ToReport(ts, sw, t) ==
    IF t > MaxTaskId THEN <<>>
    ELSE (IF t \in sw /\ HoldsException(ts[t]) THEN <<t>> ELSE <<>>) \o ToReport(ts, sw, t + 1)

\* line 300 returns; lines 302-312 report; run_single blocks in line 194
gather(p) ==
    /\ rs_pc[p] = "gather"
    /\ GatherDone(tasks[p], swept[p])
    /\ reported' = [reported EXCEPT ![p] = @ \o ToReport(tasks[p], swept[p], 0)]
    /\ steps' = [steps EXCEPT ![p] = @ \o <<"gather", "report">>]
    /\ rs_pc' = [rs_pc EXCEPT ![p] = "shutdown_asyncgens"]
    /\ UNCHANGED <<conn_vars, sup_vars, use_reloader, startup, server, accepted, tasks, swept, reload_,
                   loop_closed, exit, sig_handler, signals>>

\* line 194 returns; lines 196-200: loop.remove_signal_handler removes what
\* loop.add_signal_handler installed, which is nothing: the handlers of line 178
\* were set with signal.signal and stay. run_single blocks in line 202.
shutdown_asyncgens(p) ==
    /\ rs_pc[p] = "shutdown_asyncgens"
    /\ steps' = [steps EXCEPT ![p] = @ \o <<"shutdown_asyncgens", "remove_signal_handler">>]
    /\ rs_pc' = [rs_pc EXCEPT ![p] = "wait_for_shutdown"]
    /\ UNCHANGED <<conn_vars, sup_vars, use_reloader, startup, server, accepted, tasks, swept, reported,
                   reload_, loop_closed, exit, sig_handler, signals>>

\* line 202 returns; line 203 cancels the lifespan task; run_single blocks in 204
wait_for_shutdown(p) ==
    /\ rs_pc[p] = "wait_for_shutdown"
    /\ tasks' = [tasks EXCEPT ![p][LifespanTask] = IF @ = "pending" THEN "cancelling" ELSE @]
    /\ steps' = [steps EXCEPT ![p] = @ \o <<"wait_for_shutdown", "lifespan_task.cancel">>]
    /\ rs_pc' = [rs_pc EXCEPT ![p] = "await_lifespan"]
    /\ UNCHANGED <<conn_vars, sup_vars, use_reloader, startup, server, accepted, swept, reported, reload_,
                   loop_closed, exit, sig_handler, signals>>

\* lines 207-209: how run_single ends once the finally block is through
ExitAfterTeardown(rl) == IF rl THEN "execv" ELSE "returned"

\* line 204: loop.run_until_complete(lifespan_task) returns the task's result.
\* A lifespan task that swallowed the cancellation (or was done already) has one
\* and line 205 closes the loop; one that ended cancelled makes line 204 raise
\* CancelledError out of the finally block.
await_lifespan(p, how) ==
    /\ rs_pc[p] = "await_lifespan"
    /\ how \in {"done", "cancelled"}
    /\ tasks[p][LifespanTask] = "done" => how = "done"
    /\ tasks' = [tasks EXCEPT ![p][LifespanTask] = how]
    /\ rs_pc' = [rs_pc EXCEPT ![p] = "exited"]
    /\ IF how = "done"
       THEN /\ steps' = [steps EXCEPT ![p] = @ \o <<"await lifespan_task", "loop.close">>]
            /\ loop_closed' = [loop_closed EXCEPT ![p] = TRUE]
            /\ exit' = [exit EXCEPT ![p] = ExitAfterTeardown(reload_[p])]
       ELSE /\ steps' = [steps EXCEPT ![p] = @ \o <<"await lifespan_task">>]
            /\ exit' = [exit EXCEPT ![p] = "CancelledError"]
            /\ UNCHANGED loop_closed
    /\ UNCHANGED <<conn_vars, sup_vars, use_reloader, startup, server, accepted, swept, reported, reload_,
                   sig_handler, signals>>

\* run(config) with config.workers = 1: run_single(app, config, loop=loop)
InitSingle ==
    /\ InitConnIdle
    /\ SupIdle
    /\ use_reloader \in BOOLEAN
    /\ rs_pc = [p \in Procs |-> IF p = 0 THEN "wait_for_startup" ELSE "idle"]
    /\ startup = [p \in Procs |-> "waiting"]
    /\ server = [p \in Procs |-> "none"]
    /\ accepted = [p \in Procs |-> FALSE]
    /\ tasks = [p \in Procs |-> IF p = 0 THEN [NoTasks EXCEPT ![LifespanTask] = "pending"]
                                 ELSE NoTasks]
    /\ swept = [p \in Procs |-> {}]
    /\ reported = [p \in Procs |-> <<>>]
    /\ reload_ = [p \in Procs |-> FALSE]
    /\ steps = [p \in Procs |-> <<>>]
    /\ loop_closed = [p \in Procs |-> FALSE]
    /\ exit = [p \in Procs |-> "no"]
    /\ sig_handler = [p \in Procs |-> "default"]
    /\ signals = 0

NextSingle ==
    \/ \E outcome \in {"complete", "unsupported", "failed"} : wait_for_startup(0, outcome)
    \/ create_server(0)
    \/ enter_serving(0)
    \/ accept(0)
    \/ \E t \in TaskIds : create_task(0, t)
    \/ \E t \in TaskIds, how \in TaskTerminal : task_ends(0, t, how)
    \/ signal_raise_shutdown(0)
    \/ reload(0)
    \/ wait_closed(0)
    \/ gather(0)
    \/ shutdown_asyncgens(0)
    \/ wait_for_shutdown(0)
    \/ \E how \in {"done", "cancelled"} : await_lifespan(0, how)

SpecSingle == InitSingle /\ [][NextSingle]_vars

----------------------------------------------------------------------------
(***************************************************************************)
(* run_multiple and its workers                                            *)
(***************************************************************************)

\* a poll that waits to be told of the set() instead of reading the Event
PollWaitsForNotification(ev) == FALSE

\* line 46-47 of _check_shutdown: the poll of a worker finds the event set and
\* raises Shutdown, which ends the poll task, leaves loop.run_forever() and is
\* caught at line 188; the finally block starts. (A poll that finds the event
\* clear sleeps, line 48, and changes nothing.)
PollSeesShutdown(ev) == ev = "set"

check_shutdown(p) ==
    /\ rs_pc[p] = "serving"
    /\ HasShutdownEvent(p)
    /\ tasks[p][HelperTask] = "pending"
    /\ PollSeesShutdown(shutdown_event)
    /\ tasks' = [tasks EXCEPT ![p][HelperTask] = "failed"]
    /\ BeginTeardown(p)
    /\ UNCHANGED <<conn_vars, sup_vars, use_reloader, startup, accepted, swept,
                   reported, reload_, loop_closed, exit, sig_handler, signals>>

\* a supervisor that starts its workers whatever the configuration says
ReloaderAccepted(reloader) == FALSE

\* line 218: the test on config.use_reloader, the first statement of run_multiple
ReloaderRefused(reloader) == reloader

\* lines 218-219: the reloader is refused
reject_reloader ==
    /\ sup_pc = "start"
    /\ ReloaderRefused(use_reloader)
    /\ sup_pc' = "RuntimeError"
    /\ UNCHANGED <<conn_vars, rs_vars, sock, shutdown_event, processes, joined, terminated>>

\* lines 221-230: the socket is created, bound and made inheritable
SocketCreated == [created |-> 1, inheritable |-> TRUE, open |-> TRUE, closed |-> 0]

\* lines 221-239: the socket; processes = []; SIGINT is ignored; the Event
create_socket ==
    /\ sup_pc = "start"
    /\ ~ReloaderRefused(use_reloader)
    /\ sock' = SocketCreated
    /\ processes' = <<>>
    /\ sig_handler' = [sig_handler EXCEPT ![0] = "SIG_IGN"]
    /\ shutdown_event' = "clear"
    /\ sup_pc' = "spawning"
    /\ UNCHANGED <<conn_vars, use_reloader, rs_pc, startup, server, accepted, tasks,
                   swept, reported, reload_, steps, loop_closed, exit, signals,
                   joined, terminated>>

\* lines 241-248, one turn of the loop: a worker process is started; it inherits
\* the supervisor's signal dispositions and runs _run_worker, which calls
\* run_single with the socket and the event
start_worker ==
    LET w == Len(processes) + 1 IN
    /\ sup_pc = "spawning"
    /\ w <= NumWorkers
    /\ processes' = Append(processes, w)
    /\ EnterRunSingle(w)
    /\ sig_handler' = [sig_handler EXCEPT ![w] = sig_handler[0]]
    /\ UNCHANGED <<conn_vars, use_reloader, startup, server, accepted, swept, reported,
                   reload_, steps, loop_closed, exit, signals, sup_pc, sock,
                   shutdown_event, joined, terminated>>

\* lines 250-255: the loop of line 241 is through; shutdown is installed for
\* the signals; run_multiple blocks in the first join
\* a supervisor that installs its handlers without waiting for the loop
SpawnLoopSkipped(ps) == TRUE

\* line 241: the loop over range(config.workers) is through
SpawnLoopDone(ps) == Len(ps) = NumWorkers

install_shutdown ==
    /\ sup_pc = "spawning"
    /\ SpawnLoopDone(processes)
    /\ sig_handler' = [sig_handler EXCEPT ![0] = "shutdown"]
    /\ sup_pc' = "joining"
    /\ UNCHANGED <<conn_vars, use_reloader, rs_pc, startup, server, accepted, tasks,
                   swept, reported, reload_, steps, loop_closed, exit, signals, sock,
                   shutdown_event, processes, joined, terminated>>

\* lines 250-251: shutdown_event.set()
\* (variant: the handler flips the event)
EventToggled(ev) == IF ev = "set" THEN "clear" ELSE "set"
EventSet(ev) == "set"

\* an interrupt is delivered to the supervisor: ignored under SIG_IGN, and
\* handled by shutdown once that is installed
signal_supervisor ==
    /\ sig_handler[0] \in {"SIG_IGN", "shutdown"}
    /\ sup_pc \in {"spawning", "joining"}
    /\ signals < MaxSignals
    /\ signals' = signals + 1
    /\ shutdown_event' = IF sig_handler[0] = "shutdown"
                         THEN EventSet(shutdown_event) ELSE shutdown_event
    /\ UNCHANGED <<conn_vars, use_reloader, rs_pc, startup, server, accepted, tasks,
                   swept, reported, reload_, steps, loop_closed, exit, sig_handler,
                   sup_pc, sock, processes, joined, terminated>>

\* a process has exited when its run_single has returned or raised
Exited(w) == rs_pc[w] = "exited"

\* line 258: process.join() returns once the process has exited
\* (variant: the join returns while the process runs)
JoinWithoutWaiting(w) == TRUE
JoinReturns(w) == Exited(w)

\* lines 257-258, one turn of the loop
join ==
    /\ sup_pc = "joining"
    /\ joined < Len(processes)
    /\ JoinReturns(processes[joined + 1])
    /\ joined' = joined + 1
    /\ UNCHANGED <<conn_vars, rs_vars, sup_pc, sock, shutdown_event, processes, terminated>>

\* line 262: sock.close()
SocketClosed(sk) == [sk EXCEPT !.open = FALSE, !.closed = sk.closed + 1]

\* lines 259-262: every process is joined; terminate() on each; the socket is
\* closed and run_multiple returns
close_socket ==
    /\ sup_pc = "joining"
    /\ joined = Len(processes)
    /\ terminated' = Range(processes)
    /\ sock' = SocketClosed(sock)
    /\ sup_pc' = "returned"
    /\ UNCHANGED <<conn_vars, rs_vars, shutdown_event, processes, joined>>

\* run(config) with config.workers > 1: run_multiple(config)
InitMulti ==
    /\ InitConnIdle
    /\ use_reloader \in BOOLEAN
    /\ RsIdle
    /\ sup_pc = "start"
    /\ sock = NoSocket
    /\ shutdown_event = "none"
    /\ processes = <<>>
    /\ joined = 0
    /\ terminated = {}

NextMulti ==
    \/ reject_reloader
    \/ create_socket
    \/ start_worker
    \/ install_shutdown
    \/ signal_supervisor
    \/ join
    \/ close_socket
    \/ \E w \in Workers, outcome \in {"complete", "unsupported", "failed"} :
          wait_for_startup(w, outcome)
    \/ \E w \in Workers : create_server(w)
    \/ \E w \in Workers : accept(w)
    \/ \E w \in Workers : check_shutdown(w)
    \/ \E w \in Workers : wait_closed(w)
    \/ \E w \in Workers : gather(w)
    \/ \E w \in Workers : shutdown_asyncgens(w)
    \/ \E w \in Workers : wait_for_shutdown(w)
    \/ \E w \in Workers, how \in {"done", "cancelled"} : await_lifespan(w, how)

SpecMulti == InitMulti /\ [][NextMulti]_vars

\* lines 212-262: the statements of run_multiple; each runs once the one
\* before it has returned
SupervisorStep ==
    \/ reject_reloader
    \/ create_socket
    \/ start_worker
    \/ install_shutdown
    \/ join
    \/ close_socket

\* the steps of a worker that need only the worker's own scheduler: the
\* start-up exchange, the acceptor, the poll every 0.1 s (line 48) and the
\* teardown statements that do not wait for tasks or for the application
WorkerSchedStep(w) ==
    \/ \E outcome \in {"complete", "unsupported", "failed"} : wait_for_startup(w, outcome)
    \/ create_server(w)
    \/ check_shutdown(w)
    \/ wait_closed(w)
    \/ shutdown_asyncgens(w)
    \/ \E how \in {"done", "cancelled"} : await_lifespan(w, how)

\* lines 300 and 202: the two waits of the teardown that return only if the
\* cancelled tasks end and the application answers the lifespan shutdown
WorkerAwaitedStep(w) == gather(w) \/ wait_for_shutdown(w)

\* run_multiple and its workers when every process is scheduled, the cancelled
\* tasks end and the application answers the lifespan shutdown
SpecMultiLive ==
    /\ InitMulti /\ [][NextMulti]_vars
    /\ WF_vars(SupervisorStep)
    /\ \A w \in Workers : WF_vars(WorkerSchedStep(w)) /\ WF_vars(WorkerAwaitedStep(w))

\* run_multiple and its workers when every process is scheduled but a worker
\* may wait forever for its tasks or for its application
SpecMultiSupervised ==
    /\ InitMulti /\ [][NextMulti]_vars
    /\ WF_vars(SupervisorStep)
    /\ \A w \in Workers : WF_vars(WorkerSchedStep(w))

----------------------------------------------------------------------------
(***************************************************************************)
(* Server                                                                  *)
(***************************************************************************)

\* A freshly constructed handler: H11Server(app, loop, config, transport) and
\* friends. The constructors take the transport and (optionally) the upgrade
\* request, and no bytes. `received` is every chunk passed to the handler's
\* data_received; `unread` is what the handler still held unparsed, behind the
\* request that asked for the upgrade, when it raised an upgrade signal.
NewHandler(kind, tr, request) ==
    [kind |-> kind, transport |-> tr, upgrade_request |-> request,
     received |-> <<>>, unread |-> <<>>, notified |-> <<>>]

\* connection_made: the protocol name the handler is picked by.
\* (variant: any TLS connection is taken to have negotiated "h2")
SelectedProtocolAnyTls(tr) == IF tr.ssl THEN "h2" ELSE "http/1.1"
SelectedProtocol(tr) == IF tr.ssl THEN tr.alpn ELSE "http/1.1"

InitialHandler(tr) ==
    IF SelectedProtocol(tr) = "h2"
    THEN NewHandler("H2Server", tr, "none")
    ELSE NewHandler("H11Server", tr, "none")

connection_made(tr) ==
    /\ conn_state = "new"
    /\ transport' = tr
    /\ _ssl_enabled' = tr.ssl
    /\ handlers' = <<InitialHandler(tr)>>
    /\ _server' = 1
    /\ conn_state' = "open"
    /\ UNCHANGED <<chunks, raised, notifications>>
    /\ UNCHANGED <<rs_vars, sup_vars>>

\* self._server.data_received(data): the active handler is passed the chunk. When
\* it raises an upgrade signal it has parsed the first `used` bytes of the chunk
\* (the end of the upgrade request) and holds the rest unparsed.
\* (variant: the chunk is parsed but not recorded as passed to the handler)
HandlerReceiveDropped(h, data, used) ==
    [h EXCEPT !.unread = SubSeq(data, used + 1, Len(data))]
HandlerReceive(h, data, used) ==
    [h EXCEPT !.received = Append(h.received, data),
              !.unread = SubSeq(data, used + 1, Len(data))]

\* The handler class an upgrade signal names.
UpgradeKind(signal) ==
    IF signal = "WebsocketProtocolRequired" THEN "WebsocketServer" ELSE "H2Server"

\* The except clauses of data_received: the handler that replaces `old`.
\* (variant: the new handler is built without the request the signal carries)
UpgradedHandlerUnseeded(old, signal, request) ==
    NewHandler(UpgradeKind(signal), old.transport, "none")
UpgradedHandler(old, signal, request) ==
    NewHandler(UpgradeKind(signal), old.transport, request)

\* The handlers after data_received(data), given what the active handler did.
\* (variant: the triggering chunk is replayed into the new handler)
AfterDataReceivedReplay(hs, active, data, used, outcome, request) ==
    LET old == HandlerReceive(hs[active], data, used)
    IN  IF outcome \in UpgradeSignals
        THEN Append([hs EXCEPT ![active] = old],
                    HandlerReceive(UpgradedHandler(old, outcome, request), data, Len(data)))
        ELSE [hs EXCEPT ![active] = old]
AfterDataReceived(hs, active, data, used, outcome, request) ==
    LET old == HandlerReceive(hs[active], data, used)
    IN  IF outcome \in UpgradeSignals
        THEN Append([hs EXCEPT ![active] = old], UpgradedHandler(old, outcome, request))
        ELSE [hs EXCEPT ![active] = old]

\* Server._server after data_received.
ActiveAfterDataReceived(hs, active, outcome) ==
    IF outcome \in UpgradeSignals THEN Len(hs) ELSE active

\* the callbacks made on the Server since connection_made
Callbacks == Len(chunks) + Len(notifications)

\* a data_received without its except clauses
PropagatesAnyRaise(outcome) == outcome # "return"

\* lines 78-88: what the handler raised leaves Server.data_received unless one
\* of the two except clauses names it
Propagates(outcome) == outcome # "return" /\ outcome \notin UpgradeSignals

data_received(n, used, outcome, request) ==
    LET data == NextChunk(chunks, n) IN
    /\ conn_state = "open"
    /\ Len(chunks) < MaxChunks
    /\ Callbacks < MaxCallbacks
    \* only the HTTP/1.1 handler parses Upgrade headers; the chunk that completes
    \* the upgrade request may carry more bytes behind it
    /\ IF outcome \in UpgradeSignals
       THEN handlers[_server].kind = "H11Server" /\ used \in 1..n /\ request \in Requests
       ELSE used = n /\ request = "none"
    /\ handlers' = AfterDataReceived(handlers, _server, data, used, outcome, request)
    /\ _server' = ActiveAfterDataReceived(handlers', _server, outcome)
    /\ chunks' = Append(chunks, data)
    /\ raised' = Append(raised, [signal |-> outcome, request |-> request,
                                 propagated |-> Propagates(outcome)])
    \* an exception that leaves data_received is fatal to the transport
    /\ conn_state' = IF Propagates(outcome) THEN "failed" ELSE conn_state
    /\ UNCHANGED <<transport, _ssl_enabled, notifications>>
    /\ UNCHANGED <<rs_vars, sup_vars>>

\* what connection_lost can be passed: None, or the error that ended the connection
LossCauses == {"None", "ConnectionResetError"}

\* a Server that keeps notifying the handler connection_made installed
NotifyFirstHandler(hs, active, note) == [hs EXCEPT ![1].notified = Append(@, note)]

\* self._server.connection_lost(exception) / .pause_writing() / .resume_writing()
Notify(hs, active, note) == [hs EXCEPT ![active].notified = Append(@, note)]

\* the transport's write buffer is over its high-water mark: the last of
\* pause_writing and resume_writing it called was pause_writing
WritingPaused ==
    LET w == SelectSeq(notifications, LAMBDA n : n.kind # "connection_lost")
    IN  w # <<>> /\ w[Len(w)].kind = "pause_writing"

\* lines 74-75, 104-108: the body of the three forwarding callbacks
Forward(kind, exception) ==
    /\ Callbacks < MaxCallbacks
    /\ handlers' = Notify(handlers, _server, [kind |-> kind, exception |-> exception])
    /\ notifications' = Append(notifications,
                               [kind |-> kind, exception |-> exception, at |-> Len(chunks)])
    /\ UNCHANGED <<transport, _server, _ssl_enabled, chunks, raised>>
    /\ UNCHANGED <<rs_vars, sup_vars>>

\* lines 74-75; the transport calls it once, when the connection is closed or
\* after an exception left a callback
connection_lost(exception) ==
    /\ conn_state \in {"open", "failed"}
    /\ Forward("connection_lost", exception)
    /\ conn_state' = "lost"

\* lines 104-105
pause_writing ==
    /\ conn_state = "open"
    /\ ~WritingPaused
    /\ Forward("pause_writing", "None")
    /\ UNCHANGED conn_state

\* lines 107-108
resume_writing ==
    /\ conn_state = "open"
    /\ WritingPaused
    /\ Forward("resume_writing", "None")
    /\ UNCHANGED conn_state

InitConn ==
    /\ InitConnIdle
    /\ use_reloader = FALSE
    /\ RsIdle
    /\ SupIdle

NextConn ==
    \/ \E tr \in Transports : connection_made(tr)
    \/ \E n \in 1..MaxChunkLen, used \in 1..MaxChunkLen,
          outcome \in Outcomes, request \in Requests \cup {"none"} :
            data_received(n, used, outcome, request)
    \/ \E exception \in LossCauses : connection_lost(exception)
    \/ pause_writing
    \/ resume_writing

SpecConn == InitConn /\ [][NextConn]_vars

----------------------------------------------------------------------------
(***************************************************************************)
(* Properties of Server                                                    *)
(***************************************************************************)

IsUpgrade(k) == raised[k].signal \in UpgradeSignals
NoUpgradeRaised == \A k \in 1..Len(raised) : ~IsUpgrade(k)
UpgradesBefore(k) == Cardinality({j \in 1..(k - 1) : IsUpgrade(j)})

\* the handlers whose data_received was passed chunk k (chunks are pairwise
\* distinct: they are disjoint ranges of the byte stream)
DeliveredTo(k) == {h \in 1..Len(handlers) : chunks[k] \in Range(handlers[h].received)}

\* C1: on a connection whose handler has raised no upgrade signal, the handler
\* installed by connection_made is still the active one, it is the only handler
\* there is, and it was passed exactly the chunks received, once each, in
\* receipt order.
C1_ChunksReachTheOneHandlerInOrder ==
    (conn_state # "new" /\ NoUpgradeRaised) =>
        /\ _server = 1
        /\ Len(handlers) = 1
        /\ handlers[1].received = chunks

C1_Witness ==
    /\ NoUpgradeRaised
    /\ Len(chunks) >= 2
    /\ handlers[1].received = chunks

\* C2: chunk k is passed to exactly one handler, the one that was active when it
\* arrived (the first handler plus one per upgrade signal raised on chunks before
\* k): the chunk an upgrade signal is raised on goes to the old handler only,
\* every later chunk to the new one only, and read in handler order the chunks
\* passed are the chunks received, none twice and none missing.
C2_NoChunkTwiceOrLost ==
    conn_state # "new" =>
        /\ \A k \in 1..Len(chunks) : DeliveredTo(k) = {1 + UpgradesBefore(k)}
        /\ Flatten([h \in 1..Len(handlers) |-> handlers[h].received]) = chunks

C2_Witness ==
    \E k \in 1..Len(chunks) :
        /\ IsUpgrade(k)
        /\ k < Len(chunks)
        /\ DeliveredTo(k) = {1}
        /\ DeliveredTo(k + 1) = {2}

\* C3: the handler connection_made installs is the HTTP/2 one exactly when the
\* transport has a TLS object whose negotiated ALPN name is "h2", and the
\* HTTP/1.1 one otherwise; until a chunk arrives it is the only handler and the
\* active one.
C3_InitialHandlerByAlpn ==
    conn_state # "new" =>
        /\ handlers[1].kind =
              IF transport.ssl /\ transport.alpn = "h2" THEN "H2Server" ELSE "H11Server"
        /\ handlers[1].transport = transport
        /\ chunks = <<>> => (Len(handlers) = 1 /\ _server = 1)

C3_Witness ==
    /\ conn_state = "open"
    /\ transport.ssl
    /\ transport.alpn = "h2"
    /\ handlers[_server].kind = "H2Server"

\* C4: the handler installed on an upgrade signal is of the class the signal
\* names, holds the transport the replaced handler held, carries the signal's
\* request, and is the active handler from then on (the last handler built is
\* always the active one).
C4_SwapInstallsNamedVariant ==
    /\ _server = Len(handlers)
    /\ \A k \in 1..Len(raised) :
          IsUpgrade(k) =>
              LET new == handlers[2 + UpgradesBefore(k)]
                  old == handlers[1 + UpgradesBefore(k)]
              IN  /\ raised[k].signal = "WebsocketProtocolRequired"
                        => new.kind = "WebsocketServer"
                  /\ raised[k].signal = "H2CProtocolRequired" => new.kind = "H2Server"
                  /\ new.transport = old.transport
                  /\ new.transport = transport
                  /\ new.upgrade_request = raised[k].request

C4_Witness ==
    /\ Len(raised) >= 1
    /\ raised[Len(raised)].signal = "WebsocketProtocolRequired"
    /\ raised[Len(raised)].request = "req2"
    /\ handlers[_server].kind = "WebsocketServer"
    /\ handlers[_server].upgrade_request = "req2"

\* C5: the bytes of the triggering chunk that the old handler held unparsed when
\* it raised the upgrade signal have been handed to the handler that replaced it.
C5_UnreadBytesHandedToNewHandler ==
    \A h \in 1..(Len(handlers) - 1) :
        Range(handlers[h].unread) \subseteq Range(Flatten(handlers[h + 1].received))

----------------------------------------------------------------------------
(***************************************************************************)
(* Properties of run_single                                                *)
(***************************************************************************)

StartupReturned(p) == startup[p] \in {"complete", "unsupported"}

\* C6: there is an acceptor, and a connection has been accepted, only if
\* wait_for_startup has returned; when wait_for_startup raised, run_single has
\* ended with that failure and there is no acceptor.
C6_AcceptorOnlyAfterStartup ==
    \A p \in Procs :
        /\ (server[p] # "none" \/ accepted[p]) => StartupReturned(p)
        /\ startup[p] = "failed" =>
              /\ server[p] = "none"
              /\ ~accepted[p]
              /\ rs_pc[p] = "exited"
              /\ exit[p] = "LifespanFailure"

C6_Witness ==
    /\ startup[0] = "complete"
    /\ server[0] = "listening"
    /\ accepted[0]

NonLifespanTasks == TaskIds \ {LifespanTask}
CancelRequested(p) ==
    swept[p] # {} \/ \E t \in NonLifespanTasks : tasks[p][t] = "cancelling"
ShutdownExchangeStarted(p) ==
    rs_pc[p] = "wait_for_shutdown" \/ "wait_for_shutdown" \in Range(steps[p])

\* C7 as stated: cancellation is requested of a task only once the acceptor is
\* confirmed closed, and at the moment run_single enters wait_for_shutdown every
\* task of the loop but the lifespan task is in a terminal state, the tasks
\* created during the drain included.
C7_AllTasksTerminalAtShutdownExchange ==
    [][\A p \in Procs :
          /\ CancelRequested(p)' => server'[p] = "closed"
          /\ (rs_pc[p] # "wait_for_shutdown" /\ rs_pc'[p] = "wait_for_shutdown") =>
                \A t \in NonLifespanTasks : tasks'[p][t] \in TaskTerminal \cup {"none"}]_vars

\* C7, amended: cancellation is requested of a task only once the acceptor is
\* confirmed closed, and once wait_for_shutdown has started every task that
\* _cancel_all_other_tasks enumerated (every task of the loop, not done, other
\* than the lifespan task, at line 297) is in a terminal state.
C7_SweptTasksTerminalAtShutdownExchange ==
    \A p \in Procs :
        /\ CancelRequested(p) => server[p] = "closed"
        /\ ShutdownExchangeStarted(p) =>
              \A t \in swept[p] : tasks[p][t] \in TaskTerminal
        /\ LifespanTask \notin swept[p]

C7_Witness ==
    /\ rs_pc[0] = "wait_for_shutdown"
    /\ Cardinality(swept[0]) >= 2
    /\ \E t \in swept[0] : tasks[0][t] = "cancelled"
    /\ \E t \in swept[0] : tasks[0][t] = "failed"

\* C9: once a signal has set off the teardown of process 0, the finally block
\* runs through: when run_single has ended, every statement from server.close()
\* to loop.close() has been executed once, in order.
C9_SignalledTeardownRunsInFull ==
    (signals >= 1 /\ rs_pc[0] = "exited" /\ steps[0] # <<>>) => steps[0] = TeardownSteps

----------------------------------------------------------------------------
(***************************************************************************)
(* Properties of run_multiple and its workers                              *)
(***************************************************************************)

IsPrefix(a, b) == Len(a) <= Len(b) /\ a = SubSeq(b, 1, Len(a))

PollRaised(w) == tasks[w][HelperTask] = "failed"

\* C8: the event, once set, stays set; and however often it is set, a worker's
\* poll raises Shutdown at most once (the poll task ends with it) and the
\* worker's finally block is entered exactly once for it: the statements
\* executed are a prefix of the teardown sequence, none twice, and the prefix
\* is not empty once the poll has raised.
C8_FlagMonotonicTeardownOnce ==
    /\ [][shutdown_event = "set" => shutdown_event' = "set"]_vars
    /\ [](\A w \in Workers :
            /\ IsPrefix(steps[w], TeardownSteps)
            /\ PollRaised(w) <=> steps[w] # <<>>
            /\ PollRaised(w) => shutdown_event = "set"
            /\ (exit[w] = "returned") => steps[w] = TeardownSteps)

C8_Witness ==
    /\ signals >= 2
    /\ shutdown_event = "set"
    /\ \A w \in Workers : exit[w] = "returned" /\ steps[w] = TeardownSteps

Running(w) == rs_pc[w] \notin {"idle", "exited"}

\* C10: the socket is created once, and is created and inheritable before the
\* first worker is started; it is open while a worker is running; it is closed
\* at most once, only when every worker has been started and has exited, and it
\* is closed when run_multiple returns.
C10_SharedSocketLifecycle ==
    /\ sock.created <= 1
    /\ sock.closed <= 1
    /\ processes # <<>> => (sock.created = 1 /\ sock.inheritable)
    /\ \A w \in Workers : Running(w) => (sock.open /\ sock.inheritable /\ sock.closed = 0)
    /\ sock.closed = 1 =>
          /\ ~sock.open
          /\ Len(processes) = NumWorkers
          /\ \A w \in Workers : Exited(w)
    /\ sup_pc = "returned" <=> sock.closed = 1

C10_Witness ==
    /\ sup_pc = "returned"
    /\ sock.closed = 1
    /\ ~sock.open
    /\ \A w \in Workers : Exited(w)

\* ---- Properties of run_multiple: configuration, signals, liveness ----

\* C11: with the reloader enabled run_multiple raises RuntimeError as its first
\* statement: no socket exists, no signal disposition of the supervisor has
\* changed, no Event exists and no worker was started; without the reloader it
\* never raises that error.
C11_ReloaderRejectedBeforeAnyEffect ==
    /\ use_reloader =>
          /\ sup_pc \in {"start", "RuntimeError"}
          /\ sock = NoSocket
          /\ sig_handler[0] = "default"
          /\ shutdown_event = "none"
          /\ processes = <<>>
          /\ joined = 0 /\ terminated = {}
          /\ \A w \in Workers : rs_pc[w] = "idle"
    /\ sup_pc = "RuntimeError" => use_reloader

C11_Witness ==
    /\ use_reloader
    /\ sup_pc = "RuntimeError"
    /\ sock = NoSocket

C13_SupervisorAlwaysReturns ==
    (sup_pc = "joining" /\ shutdown_event = "set")
       ~> (sup_pc = "returned" /\ sock.closed = 1 /\ joined = NumWorkers)

\* ---- Properties of run_single: re-launch, reports, the lifespan task ----

\* C14: a run of run_single that has left its serving loop and has ended was
\* re-launched with execv exactly if the loop ended with MustReloadException,
\* and a re-launch comes only after the whole finally block, loop.close()
\* included.
C14_RelaunchIffMustReload ==
    \A p \in Procs :
       /\ (rs_pc[p] = "exited" /\ steps[p] # <<>>) => (exit[p] = "execv" <=> reload_[p])
       /\ exit[p] = "execv" => (steps[p] = TeardownSteps /\ loop_closed[p])

Occurrences(seq, x) == Cardinality({i \in 1..Len(seq) : seq[i] = x})

\* C15: once _cancel_all_other_tasks has run its report loop, the loop's
\* exception handler was called exactly once for every task of the sweep that
\* ended with an exception and not at all for a task that ended cancelled or
\* completed, or that was not in the sweep; before the loop nothing is
\* reported; and the run has gone on to the statements after the sweep, its
\* only ways out being those of run_single itself.
C15_SweptExceptionsReportedOnce ==
    \A p \in Procs :
       /\ "report" \notin Range(steps[p]) => reported[p] = <<>>
       /\ "report" \in Range(steps[p]) =>
             /\ \A t \in TaskIds :
                   Occurrences(reported[p], t) =
                      IF t \in swept[p] /\ tasks[p][t] = "failed" THEN 1 ELSE 0
             /\ \A t \in swept[p] : tasks[p][t] \in TaskTerminal
             /\ rs_pc[p] \in {"shutdown_asyncgens", "wait_for_shutdown",
                              "await_lifespan", "exited"}
       /\ exit[p] \in {"no", "LifespanFailure", "Shutdown", "returned", "execv",
                       "CancelledError"}

C15_Witness ==
    /\ "wait_for_shutdown" \in Range(steps[0])
    /\ Len(reported[0]) = 1
    /\ \E t \in swept[0] : tasks[0][t] = "cancelled"
    /\ \E t \in swept[0] : tasks[0][t] = "failed"

\* C16: the lifespan task is never among the tasks the sweep cancels; its
\* cancellation is requested only after wait_for_shutdown returned; and a run of
\* run_single that entered its finally block and has ended has closed the loop,
\* whether the lifespan task ended completed or cancelled.
C16_TeardownEndsWithLoopClosed ==
    \A p \in Procs :
       /\ LifespanTask \notin swept[p]
       /\ tasks[p][LifespanTask] \in {"cancelling", "cancelled"}
             => "wait_for_shutdown" \in Range(steps[p])
       /\ (rs_pc[p] = "exited" /\ "await lifespan_task" \in Range(steps[p]))
             => (loop_closed[p] /\ "loop.close" \in Range(steps[p]))

\* ---- Properties of Server: exceptions and notifications ----

\* C17: an upgrade signal raised by the active handler never leaves
\* Server.data_received, and the connection goes on; anything else the handler
\* raises does leave it, and then the active handler is the one that was active
\* before the call: at every moment the active handler is the last constructed,
\* and there is one handler more than upgrade signals were raised.
C17_OnlyUpgradeSignalsConsumed ==
    /\ \A k \in 1..Len(raised) :
          /\ IsUpgrade(k) => ~raised[k].propagated
          /\ raised[k].signal = "error" => (raised[k].propagated /\ k = Len(raised))
          /\ raised[k].signal = "return" => ~raised[k].propagated
    /\ conn_state = "failed" =>
          (raised # <<>> /\ raised[Len(raised)].signal = "error")
    /\ (raised # <<>> /\ raised[Len(raised)].signal # "error") =>
          conn_state \in {"open", "lost"}
    /\ conn_state # "new" =>
          /\ _server = 1 + UpgradesBefore(Len(raised) + 1)
          /\ Len(handlers) = _server

C17_Witness ==
    /\ Len(raised) = 2
    /\ IsUpgrade(1)
    /\ raised[2].signal = "error"
    /\ conn_state = "failed"
    /\ _server = 2

\* the handler that was active when notification n was made: the first one,
\* moved on by one for each upgrade signal raised on the chunks before it
ActiveAt(n) == 1 + UpgradesBefore(n.at + 1)

\* the notifications made while handler h was active, as the transport made them
NotificationsFor(h) ==
    LET mine == SelectSeq(notifications, LAMBDA n : ActiveAt(n) = h)
    IN  [i \in 1..Len(mine) |-> [kind |-> mine[i].kind, exception |-> mine[i].exception]]

\* C18: each handler was notified of exactly the pause_writing, resume_writing
\* and connection_lost callbacks the transport made while it was the active
\* handler, once each, in order, connection_lost with the exception the
\* transport gave; and a notification changes neither which handler is active,
\* nor the handlers there are, nor anything else a handler holds, nor
\* _ssl_enabled, nor the chunks passed on.
C18_NotificationsForwardedToActiveHandler ==
    /\ [](\A h \in 1..Len(handlers) : handlers[h].notified = NotificationsFor(h))
    /\ [][notifications' # notifications =>
             /\ _server' = _server
             /\ _ssl_enabled' = _ssl_enabled
             /\ transport' = transport
             /\ chunks' = chunks /\ raised' = raised
             /\ Len(handlers') = Len(handlers)
             /\ \A h \in 1..Len(handlers) :
                   [handlers'[h] EXCEPT !.notified = handlers[h].notified] = handlers[h]]_vars

C18_Witness ==
    /\ Len(handlers) = 2
    /\ conn_state = "lost"
    /\ handlers[1].notified = <<[kind |-> "pause_writing", exception |-> "None"]>>
    /\ handlers[2].notified =
          <<[kind |-> "connection_lost", exception |-> "ConnectionResetError"]>>

\* ---- Properties of run_multiple: the supervisor's signal handling ----

InterruptDelivered == signals' = signals + 1

\* what the delivery of a signal to the supervisor leaves alone
HandlerLeavesAlone ==
    UNCHANGED <<sup_pc, sock, processes, joined, terminated, sig_handler, rs_pc,
                tasks, steps, exit>>

\* C19 as claimed: SIGINT is ignored from before the first worker is started,
\* the shutdown handler is installed only when all workers were started, the
\* handler only sets the Event, and every interrupt delivered to the supervisor
\* while a worker exists sets the Event.
C19_EveryInterruptWithWorkersSetsFlag ==
    /\ [][Len(processes') > Len(processes) => sig_handler[0] = "SIG_IGN"]_vars
    /\ [](sig_handler[0] = "shutdown" => Len(processes) = NumWorkers)
    /\ [][InterruptDelivered => HandlerLeavesAlone]_vars
    /\ [][(InterruptDelivered /\ processes # <<>>) => shutdown_event' = "set"]_vars

\* C19, amended: SIGINT is ignored from before the first worker is started, the
\* shutdown handler is installed only when all workers were started, the
\* handler only sets the Event, every interrupt delivered once the handler is
\* installed sets the Event, and an interrupt delivered before that, while the
\* workers are being started, is ignored: the Event stays as it is.
C19_InterruptAfterInstallSetsFlag ==
    /\ [][Len(processes') > Len(processes) => sig_handler[0] = "SIG_IGN"]_vars
    /\ [](sig_handler[0] = "shutdown" => Len(processes) = NumWorkers)
    /\ [][InterruptDelivered => HandlerLeavesAlone]_vars
    /\ [][(InterruptDelivered /\ sig_handler[0] = "shutdown")
             => shutdown_event' = "set"]_vars
    /\ [][(InterruptDelivered /\ sig_handler[0] = "SIG_IGN")
             => shutdown_event' = shutdown_event]_vars
    /\ [](sup_pc = "spawning" => shutdown_event = "clear")

C19_Witness ==
    /\ sup_pc = "joining"
    /\ sig_handler[0] = "shutdown"
    /\ signals = 2
    /\ shutdown_event = "set"
    /\ \A w \in Workers : Running(w)

\* C20: the poll reads the level of the Event: whenever a worker is in its
\* serving loop with the poll task alive and the Event set, whether it was set
\* before or after the poll task was created, the poll's next reading raises
\* Shutdown; and a worker that is in its serving loop with the Event set
\* eventually has left it through the poll and has entered its finally block.
C20_SetFlagSeenByPoll ==
    /\ [](\A w \in Workers :
            (rs_pc[w] = "serving" /\ shutdown_event = "set") =>
               (tasks[w][HelperTask] = "pending" /\ ENABLED check_shutdown(w)))
    /\ \A w \in Workers :
          (rs_pc[w] = "serving" /\ shutdown_event = "set")
             ~> (PollRaised(w) /\ steps[w] # <<>> /\ rs_pc[w] # "serving")

C20_Witness ==
    /\ shutdown_event = "set"
    /\ rs_pc[1] = "create_server"
    /\ tasks[1][HelperTask] = "none"
    /\ PollRaised(2)

====
